---- MODULE Spec2Model ----
(***************************************************************************)
(* Verification model of the Simpleton-CLI caching and LLM client layer:   *)
(*   - LLMClient   (src/src/llm/LLMClient.ts): response cache, request     *)
(*                 fingerprint, HTTP status handling, stream decoder;      *)
(*   - CacheManager (src/unnamed/part_013): TTL store with size-bounded    *)
(*                 eviction.                                               *)
(* Eleven specifications share the module:                                 *)
(*   SpecKey    - generateCacheKey applied to pairs of requests;           *)
(*   SpecClient - chatCompletion calls against a nondeterministic server;  *)
(*   SpecCache  - CacheManager get/set/delete/clear/cleanup with a clock;  *)
(*   SpecStream - streamChatCompletion decoding a chunked response body;   *)
(*   SpecBatch  - batchChatCompletion over windows of requests;            *)
(*   SpecBatchFair - the same for any concurrency, with fair scheduling;   *)
(*   SpecProbe  - testConnection with its timer and the interceptors;      *)
(*   SpecFile   - cacheFileContent / getCachedFileContent for one file;    *)
(*   SpecPersist - the cache.json snapshot: load at start-up and save;     *)
(*   SpecStreamCall - streamChatCompletion next to cached chatCompletion;  *)
(*   SpecFileRace - FileManager readFile / writeFile racing on one file.   *)
(***************************************************************************)
EXTENDS Integers, Sequences, FiniteSets, TLC

VARIABLES
  \* ---- SpecKey ----
  reqA, reqB,        \* two requests handed to generateCacheKey
  keyA, keyB,        \* their cache keys (<<>> before the keys are computed)
  keyPc,             \* "init" | "done"
  \* ---- SpecClient ----
  responseCache,     \* LLMClient.responseCache: sequence of [key, response, timestamp, req]
  stats,             \* LLMClient.stats
  calls,             \* log of chatCompletion calls
  posts,             \* number of HTTP POSTs issued
  clock,             \* Date.now() of the client
  \* ---- SpecCache ----
  cache,             \* CacheManager.cache: sequence of [key, data, timestamp, ttl, size]
  cstats,            \* CacheManager.stats: [hits, misses]
  now,               \* Date.now() of the cache manager
  lastOp,            \* the last CacheManager operation and what it returned
  \* ---- SpecStream ----
  streamBody,        \* the bytes of the streamed HTTP response body
  pos,               \* how many of them the transport has delivered
  buffer,            \* streamChatCompletion's carry-over buffer (characters)
  decoded,           \* all characters decoded so far: every chunk.toString() in turn
  yielded,           \* the content tokens yielded so far
  spc,               \* "reading" | "returned" ([DONE] seen) | "ended" | "idle"
  \* ---- SpecBatch ----
  requests,          \* the list handed to batchChatCompletion
  concurrency,       \* its concurrency argument
  loopIndex,         \* the loop variable i of batchChatCompletion
  promises,          \* one chatCompletion promise per request
  results,           \* the local results array
  batchError,        \* the error batchChatCompletion rejected with
  batchPc,           \* "start" | "await" | "done" | "failed" | "idle"
  \* ---- SpecProbe ----
  probe,             \* the testConnection call in progress: [state, timeoutMs, elapsed]
  probes,            \* log of finished testConnection calls: [cause, result]
  \* ---- SpecFile ----
  file,              \* the file on disk as fs.stat reports it: [exists, mtime, size]
  fileRead,          \* the getCachedFileContent call: [state, cached, seen, result]
  fileText,          \* the text of the file on disk (SpecFileRace)
  fileTasks,         \* FileManager calls in progress: [op, pc, content, cached]
  \* ---- SpecPersist ----
  disk,              \* the entries of cache.json, in the order of its keys
  loadPc             \* loadPersistentCache: "pending" | "done" | "idle"

keyVars    == <<reqA, reqB, keyA, keyB, keyPc>>
clientVars == <<responseCache, stats, calls, posts, clock>>
cacheVars  == <<cache, cstats, now, lastOp>>
streamVars == <<streamBody, pos, buffer, decoded, yielded, spc>>
batchVars  == <<requests, concurrency, loopIndex, promises, results, batchError, batchPc>>
probeVars  == <<probe, probes>>
fileVars   == <<file, fileRead, fileText, fileTasks>>
persistVars == <<disk, loadPc>>
vars       == <<keyVars, clientVars, cacheVars, streamVars, batchVars, probeVars, fileVars, persistVars>>

nonKeyVars    == <<clientVars, cacheVars, streamVars, batchVars, probeVars, fileVars, persistVars>>
nonClientVars == <<keyVars, cacheVars, streamVars, batchVars, probeVars, fileVars, persistVars>>
nonCacheVars  == <<keyVars, clientVars, streamVars, batchVars, probeVars, fileVars, persistVars>>
nonStreamVars == <<keyVars, clientVars, cacheVars, batchVars, probeVars, fileVars, persistVars>>
nonBatchVars  == <<keyVars, cacheVars, streamVars, probeVars, fileVars, persistVars>>
nonProbeVars  == <<keyVars, cacheVars, streamVars, batchVars, fileVars, persistVars>>
nonFileVars   == <<keyVars, clientVars, streamVars, batchVars, probeVars, persistVars,
                    fileText, fileTasks>>
nonRaceVars   == <<keyVars, clientVars, streamVars, batchVars, probeVars, persistVars,
                    fileRead>>
nonPersistVars == <<keyVars, clientVars, streamVars, batchVars, probeVars, fileVars>>

----------------------------------------------------------------------------
(* Generic helpers *)

Min(a, b) == IF a < b THEN a ELSE b

\* all sequences over S of length lo..hi
SeqsOf(S, lo, hi) == UNION {[1..n -> S] : n \in lo..hi}

----------------------------------------------------------------------------
(* JSON.stringify of the fingerprint object, character by character *)

DigitChar(d) == <<"0","1","2","3","4","5","6","7","8","9">>[d + 1]

RECURSIVE NatStr(_)
NatStr(n) == IF n < 10 THEN <<DigitChar(n)>>
             ELSE NatStr(n \div 10) \o <<DigitChar(n % 10)>>

\* a temperature is held in tenths (7 is 0.7); JSON prints 0.7, 1, 0
TempStr(t) == IF t % 10 = 0 THEN NatStr(t \div 10)
              ELSE NatStr(t \div 10) \o <<".">> \o <<DigitChar(t % 10)>>

\* JSON string literal; the modelled names and contents need no escaping
JsonString(s) == <<"\"">> \o s \o <<"\"">>

JsonMessage(m) ==
  <<"{">> \o JsonString(<<"r","o","l","e">>) \o <<":">> \o JsonString(m.role)
  \o <<",">> \o JsonString(<<"c","o","n","t","e","n","t">>) \o <<":">>
  \o JsonString(m.content) \o <<"}">>

RECURSIVE JsonMessageList(_)
JsonMessageList(ms) ==
  IF ms = <<>> THEN <<>>
  ELSE IF Len(ms) = 1 THEN JsonMessage(ms[1])
  ELSE JsonMessage(ms[1]) \o <<",">> \o JsonMessageList(Tail(ms))

\* JSON.stringify({model, messages, temperature, max_tokens})
StringifyKeyObject(request) ==
  <<"{">> \o JsonString(<<"m","o","d","e","l">>) \o <<":">>
  \o JsonString(request.model)
  \o <<",">> \o JsonString(<<"m","e","s","s","a","g","e","s">>) \o <<":">>
  \o <<"[">> \o JsonMessageList(request.messages) \o <<"]">>
  \o <<",">> \o JsonString(<<"t","e","m","p","e","r","a","t","u","r","e">>)
  \o <<":">> \o TempStr(request.temperature)
  \o <<",">> \o JsonString(<<"m","a","x","_","t","o","k","e","n","s">>)
  \o <<":">> \o NatStr(request.max_tokens) \o <<"}">>

(* Buffer.from(key).toString('base64'): every group of three bytes becomes *)
(* four output characters.  An output character is represented by its      *)
(* position in the group and the bytes whose bits it carries, "=" padding  *)
(* a short final group; two encodings are equal exactly when the byte      *)
(* strings are.                                                            *)
Base64Group(b) ==
  IF Len(b) = 3 THEN << <<1, b[1]>>, <<2, b[1], b[2]>>, <<3, b[2], b[3]>>, <<4, b[3]>> >>
  ELSE IF Len(b) = 2 THEN << <<1, b[1]>>, <<2, b[1], b[2]>>, <<3, b[2]>>, <<"=">> >>
  ELSE << <<1, b[1]>>, <<2, b[1]>>, <<"=">>, <<"=">> >>

RECURSIVE Base64(_)
Base64(bytes) ==
  IF bytes = <<>> THEN <<>>
  ELSE IF Len(bytes) <= 3 THEN Base64Group(bytes)
  ELSE Base64Group(SubSeq(bytes, 1, 3)) \o Base64(SubSeq(bytes, 4, Len(bytes)))

KeyLength == 32

\* String.prototype.slice(0, n)
Slice0(s, n) == SubSeq(s, 1, Min(n, Len(s)))

generateCacheKey(request) == Slice0(Base64(StringifyKeyObject(request)), KeyLength)

----------------------------------------------------------------------------
(* Inputs *)

MaxMsgs == 2

Models == { <<"m","1">>, <<"m","2">> }
RoleUser == <<"u","s","e","r">>
RoleAssistant == <<"a","s","s","i","s","t","a","n","t">>
Messages == { [role |-> RoleUser, content |-> <<"h","i">>],
              [role |-> RoleAssistant, content |-> <<"y","o">>] }
MsgLists == SeqsOf(Messages, 1, MaxMsgs)
Temps == {7, 0}              \* options.temperature ?? 0.7
MaxToks == {4000, 50}        \* options.maxTokens ?? 4000

KeyRequests == [model : Models, messages : MsgLists,
                temperature : Temps, max_tokens : MaxToks]

SameFingerprintFields(r, s) ==
  /\ r.model = s.model
  /\ r.messages = s.messages
  /\ r.temperature = s.temperature
  /\ r.max_tokens = s.max_tokens

----------------------------------------------------------------------------
(* SpecKey: generateCacheKey on two requests *)

ClientIdle ==
  /\ responseCache = <<>>
  /\ stats = [requestCount |-> 0, totalTokens |-> 0, avgResponseTime |-> 0,
              errorCount |-> 0, cacheHits |-> 0]
  /\ calls = <<>>
  /\ posts = 0
  /\ clock = 0

\* what get returns: a value or null
NoData == [some |-> FALSE, data |-> <<>>]
SomeData(d) == [some |-> TRUE, data |-> d]

BlankOp == [op |-> "none", key |-> "", found |-> FALSE, ts |-> 0, ttl |-> 0,
            at |-> 0, result |-> NoData, size |-> 0, emptyBefore |-> FALSE,
            before |-> <<>>, evicted |-> <<>>]

CacheIdle ==
  /\ cache = <<>>
  /\ cstats = [hits |-> 0, misses |-> 0]
  /\ now = 0
  /\ lastOp = BlankOp

StreamIdle ==
  /\ streamBody = <<>> /\ pos = 0 /\ buffer = <<>> /\ decoded = <<>>
  /\ yielded = <<>>
  /\ spc = "idle"

BatchIdle ==
  /\ requests = <<>> /\ concurrency = 0 /\ loopIndex = 0
  /\ promises = <<>> /\ results = <<>>
  /\ batchError = [class |-> "none", model |-> <<>>, status |-> 0]
  /\ batchPc = "idle"

NoProbe == [state |-> "none", timeoutMs |-> 0, elapsed |-> 0]

ProbeIdle == probe = NoProbe /\ probes = <<>>

NoFile == [exists |-> FALSE, mtime |-> 0, size |-> 0]
NoRecord == [content |-> <<>>, mtime |-> 0, size |-> 0]
NoRead == [state |-> "none", cached |-> NoRecord, seen |-> NoFile, result |-> NoData]

NoTask == [op |-> "none", pc |-> "idle", content |-> <<>>, cached |-> NoRecord]

FileIdle == file = NoFile /\ fileRead = NoRead /\ fileText = <<>> /\ fileTasks = [t \in 1..2 |-> NoTask]

PersistIdle == disk = <<>> /\ loadPc = "idle"

KeyIdle ==
  /\ reqA = [model |-> <<>>] /\ reqB = [model |-> <<>>]
  /\ keyA = <<>> /\ keyB = <<>>
  /\ keyPc = "idle"

InitKey ==
  /\ reqA \in KeyRequests
  /\ reqB \in KeyRequests
  /\ keyA = <<>> /\ keyB = <<>>
  /\ keyPc = "init"
  /\ ClientIdle /\ CacheIdle /\ StreamIdle /\ BatchIdle /\ ProbeIdle /\ FileIdle
  /\ PersistIdle

ComputeKeys ==
  /\ keyPc = "init"
  /\ keyA' = generateCacheKey(reqA)
  /\ keyB' = generateCacheKey(reqB)
  /\ keyPc' = "done"
  /\ UNCHANGED <<reqA, reqB, nonKeyVars>>

NextKey == ComputeKeys

SpecKey == InitKey /\ [][NextKey]_vars

----------------------------------------------------------------------------
(* JavaScript Map kept as the sequence of its entries in insertion order *)

MapIndex(m, k) ==
  IF \E i \in 1..Len(m) : m[i].key = k
  THEN CHOOSE i \in 1..Len(m) : m[i].key = k
  ELSE 0

MapHas(m, k) == MapIndex(m, k) > 0

\* a set that keeps the value already stored under the key
MapSetKeepFirst(m, e) ==
  IF MapHas(m, e.key) THEN m ELSE Append(m, e)

\* Map.prototype.set: an existing key keeps its position
MapSet(m, e) ==
  IF MapHas(m, e.key) THEN [m EXCEPT ![MapIndex(m, e.key)] = e]
  ELSE Append(m, e)

\* removes the oldest insertion whatever the key
MapDeleteHead(m, k) == IF m = <<>> THEN m ELSE Tail(m)

\* Map.prototype.delete
MapDelete(m, k) ==
  IF MapHas(m, k)
  THEN SubSeq(m, 1, MapIndex(m, k) - 1) \o SubSeq(m, MapIndex(m, k) + 1, Len(m))
  ELSE m

RECURSIVE MapDeleteAll(_, _)
MapDeleteAll(m, ks) ==
  IF ks = <<>> THEN m ELSE MapDeleteAll(MapDelete(m, Head(ks)), Tail(ks))

\* Array.prototype.sort((a, b) => a.timestamp - b.timestamp): stable
InsertByTimestamp(e, sorted) ==
  LET k == Cardinality({i \in 1..Len(sorted) : sorted[i].timestamp <= e.timestamp})
  IN SubSeq(sorted, 1, k) \o <<e>> \o SubSeq(sorted, k + 1, Len(sorted))

RECURSIVE SortByTimestamp(_)
SortByTimestamp(es) ==
  IF es = <<>> THEN <<>>
  ELSE InsertByTimestamp(es[Len(es)], SortByTimestamp(SubSeq(es, 1, Len(es) - 1)))

KeysOf(es) == [i \in 1..Len(es) |-> es[i].key]

----------------------------------------------------------------------------
(* SpecClient: LLMClient.chatCompletion against a nondeterministic server *)

MaxCalls == 2         \* chatCompletion calls per behaviour
MaxTicks == 1         \* clock advances per behaviour

cacheTTL == 300000
CacheLimit == 100
EvictCount == 20

ClientModel == <<"m","1">>

\* (messages, temperature, maxTokens) the callers pass: a base request, one
\* with other messages, one with another temperature and max_tokens
BaseMsgs == << [role |-> RoleUser, content |-> <<"h","i">>] >>
OtherMsgs == << [role |-> RoleUser, content |-> <<"y","o">>] >>
ClientArgs == { [messages |-> BaseMsgs,  temperature |-> 7, maxTokens |-> 4000],
                [messages |-> OtherMsgs, temperature |-> 7, maxTokens |-> 4000],
                [messages |-> BaseMsgs,  temperature |-> 0, maxTokens |-> 50] }

\* options.stream ?? false and options.useCache (undefined counts as true)
ClientOptions == { [stream |-> FALSE, useCache |-> TRUE],
                   [stream |-> FALSE, useCache |-> FALSE],
                   [stream |-> TRUE,  useCache |-> TRUE] }

\* response bodies: two chat completions, a JSON error object, an empty body
NoBody == [kind |-> "none", id |-> "", tokens |-> 0]
CompletionBodies == { [kind |-> "completion", id |-> "A", tokens |-> 3],
                      [kind |-> "completion", id |-> "B", tokens |-> 5] }
ErrorBody == [kind |-> "error", id |-> "", tokens |-> 0]
EmptyBody == [kind |-> "empty", id |-> "", tokens |-> 0]

\* JavaScript truthiness of response.data
Truthy(body) == body.kind /= "empty"

NoStatus == 0         \* no HTTP response (network failure)
Statuses == {200, 404, 503}
Is2xx(status) == status >= 200 /\ status < 300

BodiesFor(status) ==
  IF Is2xx(status) THEN CompletionBodies
  ELSE IF status < 500 THEN {ErrorBody, EmptyBody}
  ELSE {ErrorBody}

\* axios validateStatus: the statuses that resolve the request promise
validateStatus(status) == status < 500

NoError == [class |-> "none", model |-> <<>>, status |-> 0]

\* enhanceError on an axios error; status is NoStatus without a response
enhanceError(status) ==
  CASE status = 404 -> [class |-> "ModelNotFound", model |-> ClientModel, status |-> status]
    [] status = 503 -> [class |-> "ServiceUnavailable", model |-> <<>>, status |-> status]
    [] status = 413 -> [class |-> "PayloadTooLarge", model |-> <<>>, status |-> status]
    [] status = 429 -> [class |-> "RateLimited", model |-> <<>>, status |-> status]
    [] OTHER -> [class |-> "Generic", model |-> <<>>, status |-> status]

\* avgResponseTime is held in units of 1/AvgScale ms, which is exact for
\* MaxCalls moving-average steps
AvgScale == 10 ^ MaxCalls

updateStats(st, duration, tokens) ==
  [st EXCEPT !.totalTokens = @ + tokens,
             !.avgResponseTime =
                IF @ = 0 THEN duration * AvgScale
                ELSE duration * (AvgScale \div 10) + (@ - @ \div 10)]

\* off by one: an entry whose age equals the TTL counts as expired
CacheLookupEarly(rc, key, at) ==
  IF ~MapHas(rc, key) THEN "absent"
  ELSE IF at - rc[MapIndex(rc, key)].timestamp >= cacheTTL THEN "expired"
  ELSE "hit"

\* getCachedResponse: "hit", "expired" (the entry is deleted) or "absent"
CacheLookup(rc, key, at) ==
  IF ~MapHas(rc, key) THEN "absent"
  ELSE IF at - rc[MapIndex(rc, key)].timestamp > cacheTTL THEN "expired"
  ELSE "hit"

getCachedResponse(rc, key, at) ==
  IF CacheLookup(rc, key, at) = "hit"
  THEN rc[MapIndex(rc, key)].response
  ELSE NoBody

\* cacheResponse; req and status record where the response came from
cacheResponse(rc, key, response, at, req, status) ==
  LET trimmed ==
        IF Len(rc) > CacheLimit
        THEN MapDeleteAll(rc, KeysOf(SubSeq(SortByTimestamp(rc), 1,
                                               Min(EvictCount, Len(rc)))))
        ELSE rc
  IN MapSet(trimmed, [key |-> key, response |-> response, timestamp |-> at,
                      req |-> req, status |-> status])

MakeRequest(args, stream) ==
  [model |-> ClientModel, messages |-> args.messages,
   temperature |-> args.temperature, max_tokens |-> args.maxTokens,
   stream |-> stream]

\* chatCompletion up to its await: cache lookup, then the POST is issued
ChatCompletion(args, stream, useCache) ==
  /\ Len(calls) < MaxCalls
  /\ LET request == MakeRequest(args, stream)
         cacheKey == generateCacheKey(request)
         lookup == IF ~stream /\ useCache
                   THEN CacheLookup(responseCache, cacheKey, clock)
                   ELSE "skipped"
         afterLookup == IF lookup = "expired"
                        THEN MapDelete(responseCache, cacheKey)
                        ELSE responseCache
         call == [request |-> request, useCache |-> useCache,
                  state |-> "inflight", lookup |-> lookup,
                  status |-> NoStatus, value |-> NoBody, error |-> NoError,
                  source |-> [model |-> <<>>], sourceStatus |-> NoStatus,
                  prior |-> Cardinality({j \in 1..Len(calls) : calls[j].state /= "inflight"}),
                  startedAt |-> clock, doneAt |-> clock]
     IN /\ responseCache' = afterLookup
        /\ IF lookup = "hit"
           THEN /\ stats' = [stats EXCEPT !.cacheHits = @ + 1]
                /\ calls' = Append(calls,
                     [call EXCEPT !.state = "resolved",
                                  !.value = getCachedResponse(responseCache, cacheKey, clock),
                                  !.source = responseCache[MapIndex(responseCache, cacheKey)].req,
                                  !.sourceStatus = responseCache[MapIndex(responseCache, cacheKey)].status])
                /\ posts' = posts
           ELSE /\ stats' = [stats EXCEPT !.requestCount = @ + 1]
                /\ calls' = Append(calls, call)
                /\ posts' = posts + 1
  /\ UNCHANGED <<clock, nonClientVars>>

\* the server answers call i: response interceptor, then the rest of chatCompletion
Respond(i, status, body) ==
  /\ i \in 1..Len(calls)
  /\ calls[i].state = "inflight"
  /\ body \in BodiesFor(status)
  /\ LET c == calls[i]
     IN IF validateStatus(status)
        THEN /\ stats' = updateStats(stats, clock - c.startedAt, body.tokens)
             /\ responseCache' =
                  IF ~c.request.stream /\ Truthy(body) /\ c.useCache
                  THEN cacheResponse(responseCache, generateCacheKey(c.request),
                                     body, clock, c.request, status)
                  ELSE responseCache
             /\ calls' = [calls EXCEPT ![i] =
                  [c EXCEPT !.state = "resolved", !.status = status,
                            !.value = body, !.doneAt = clock]]
        ELSE /\ stats' = [stats EXCEPT !.errorCount = @ + 1]
             /\ responseCache' = responseCache
             /\ calls' = [calls EXCEPT ![i] =
                  [c EXCEPT !.state = "rejected", !.status = status,
                            !.error = enhanceError(status), !.doneAt = clock]]
  /\ UNCHANGED <<posts, clock, nonClientVars>>

\* the POST of call i fails without a response (refused, reset, timeout)
NetworkFail(i) ==
  /\ i \in 1..Len(calls)
  /\ calls[i].state = "inflight"
  /\ stats' = [stats EXCEPT !.errorCount = @ + 1]
  /\ calls' = [calls EXCEPT ![i] =
       [@ EXCEPT !.state = "rejected", !.error = enhanceError(NoStatus),
                 !.doneAt = clock]]
  /\ UNCHANGED <<responseCache, posts, clock, nonClientVars>>

\* Date.now() advances; one step reaches either side of the TTL boundary
TickSteps == {cacheTTL, cacheTTL + 1}

\* the number of steps that led to a clock value
TicksTaken(at) == at \div cacheTTL

Tick(d) ==
  /\ TicksTaken(clock) < MaxTicks
  /\ clock' = clock + d
  /\ UNCHANGED <<responseCache, stats, calls, posts, nonClientVars>>

InitClient ==
  ClientIdle /\ KeyIdle /\ CacheIdle /\ StreamIdle /\ BatchIdle /\ ProbeIdle /\ FileIdle
  /\ PersistIdle

NextClient ==
  \/ \E args \in ClientArgs, opts \in ClientOptions :
       ChatCompletion(args, opts.stream, opts.useCache)
  \/ \E i \in 1..MaxCalls, status \in Statuses, body \in CompletionBodies \cup {ErrorBody, EmptyBody} :
       Respond(i, status, body)
  \/ \E i \in 1..MaxCalls : NetworkFail(i)
  \/ \E d \in TickSteps : Tick(d)

SpecClient == InitClient /\ [][NextClient]_vars

----------------------------------------------------------------------------
(* SpecCache: CacheManager with a clock *)

maxSize == 10         \* options.maxSize, in bytes
defaultTTL == 2       \* options.defaultTTL, in clock ticks
MaxTime == 2          \* the clock stops here
MaxGets == 1          \* get calls counted between two clear calls

CacheKeys == {"k1", "k2", "k3"}

\* the cached values are strings of n characters
StringOf(n) == [i \in 1..n |-> "a"]
CacheDatas == { StringOf(1), StringOf(maxSize \div 2), StringOf(maxSize) }

\* the (data, ttl) arguments of set; ttl 0 stands for an omitted one
\* (ttl || this.defaultTTL), and the short explicit ttl goes with short data
SetArgs == { [data |-> d, ttl |-> 0] : d \in CacheDatas }
           \cup { [data |-> StringOf(1), ttl |-> 1] }

\* Buffer.byteLength(JSON.stringify(data), 'utf8')
estimateSize(data) == Len(JsonString(data))

RECURSIVE SumSizes(_)
SumSizes(es) == IF es = <<>> THEN 0 ELSE Head(es).size + SumSizes(Tail(es))

\* the comparison turned around
isExpiredInverted(entry, at) == (entry.timestamp + entry.ttl) > at

isExpired(entry, at) == (entry.timestamp + entry.ttl) < at

\* the loop of ensureSpace over the sorted entries
RECURSIVE EvictLoop(_, _, _, _, _)
EvictLoop(entries, m, currentSize, newEntrySize, evicted) ==
  IF entries = <<>> THEN [cache |-> m, evicted |-> evicted]
  ELSE LET e == Head(entries)
           m2 == MapDelete(m, e.key)
           size2 == currentSize - e.size
       IN IF size2 + newEntrySize <= maxSize
          THEN [cache |-> m2, evicted |-> Append(evicted, e.key)]
          ELSE EvictLoop(Tail(entries), m2, size2, newEntrySize, Append(evicted, e.key))

\* evicts in map order, without sorting by age
ensureSpaceUnsorted(m, newEntrySize) ==
  IF SumSizes(m) + newEntrySize <= maxSize
  THEN [cache |-> m, evicted |-> <<>>]
  ELSE EvictLoop(m, m, SumSizes(m), newEntrySize, <<>>)

\* admits the entry without evicting
ensureSpaceNoEvict(m, newEntrySize) == [cache |-> m, evicted |-> <<>>]

\* ensureSpace: the cache after eviction and the keys evicted, in order
ensureSpace(m, newEntrySize) ==
  IF SumSizes(m) + newEntrySize <= maxSize
  THEN [cache |-> m, evicted |-> <<>>]
  ELSE EvictLoop(SortByTimestamp(m), m, SumSizes(m), newEntrySize, <<>>)

\* get(key)
Get(k) ==
  /\ cstats.hits + cstats.misses < MaxGets
  /\ LET i == MapIndex(cache, k)
         op == [BlankOp EXCEPT !.op = "get", !.key = k, !.at = now]
     IN IF i = 0
        THEN /\ cstats' = [cstats EXCEPT !.misses = @ + 1]
             /\ cache' = cache
             /\ lastOp' = op
        ELSE LET found == [op EXCEPT !.found = TRUE, !.ts = cache[i].timestamp,
                                     !.ttl = cache[i].ttl]
             IN IF isExpired(cache[i], now)
                THEN /\ cache' = MapDelete(cache, k)
                     /\ cstats' = [cstats EXCEPT !.misses = @ + 1]
                     /\ lastOp' = found
                ELSE /\ cache' = cache
                     /\ cstats' = [cstats EXCEPT !.hits = @ + 1]
                     /\ lastOp' = [found EXCEPT !.result = SomeData(cache[i].data)]
  /\ UNCHANGED <<now, nonCacheVars>>

\* set(key, data, ttl)
Set(k, data, ttlArg) ==
  /\ LET size == estimateSize(data)
         entry == [key |-> k, data |-> data, timestamp |-> now,
                   ttl |-> IF ttlArg = 0 THEN defaultTTL ELSE ttlArg,
                   size |-> size]
         spaced == ensureSpace(cache, size)
     IN /\ cache' = MapSet(spaced.cache, entry)
        /\ lastOp' = [BlankOp EXCEPT !.op = "set", !.key = k,
                                     !.size = size, !.emptyBefore = (cache = <<>>),
                                     !.before = IF spaced.evicted = <<>> THEN <<>> ELSE cache,
                                     !.evicted = spaced.evicted]
  /\ UNCHANGED <<cstats, now, nonCacheVars>>

\* delete(key)
Delete(k) ==
  /\ cache' = MapDelete(cache, k)
  /\ lastOp' = [BlankOp EXCEPT !.op = "delete", !.key = k,
                               !.found = MapHas(cache, k)]
  /\ UNCHANGED <<cstats, now, nonCacheVars>>

\* clear()
Clear ==
  /\ cache' = <<>>
  /\ cstats' = [hits |-> 0, misses |-> 0]
  /\ lastOp' = [BlankOp EXCEPT !.op = "clear"]
  /\ UNCHANGED <<now, nonCacheVars>>

RECURSIVE ExpiredKeys(_, _)
ExpiredKeys(es, at) ==
  IF es = <<>> THEN <<>>
  ELSE IF isExpired(Head(es), at) THEN <<Head(es).key>> \o ExpiredKeys(Tail(es), at)
  ELSE ExpiredKeys(Tail(es), at)

\* cleanup(), run by the interval timer
Cleanup ==
  /\ cache' = MapDeleteAll(cache, ExpiredKeys(cache, now))
  /\ lastOp' = [BlankOp EXCEPT !.op = "cleanup"]
  /\ UNCHANGED <<cstats, now, nonCacheVars>>

TickCache ==
  /\ now < MaxTime
  /\ now' = now + 1
  /\ UNCHANGED <<cache, cstats, lastOp, nonCacheVars>>

InitCache ==
  CacheIdle /\ KeyIdle /\ ClientIdle /\ StreamIdle /\ BatchIdle /\ ProbeIdle /\ FileIdle
  /\ PersistIdle

NextCache ==
  \/ \E k \in CacheKeys : Get(k)
  \/ \E k \in CacheKeys, a \in SetArgs : Set(k, a.data, a.ttl)
  \/ \E k \in CacheKeys : Delete(k)
  \/ Clear
  \/ Cleanup
  \/ TickCache

SpecCache == InitCache /\ [][NextCache]_vars

----------------------------------------------------------------------------
(* SpecStream: the decoder of streamChatCompletion on a chunked body *)

MaxLines == 3         \* lines of a response body

\* Bytes are one-character strings for ASCII and "C3", "A9" for the two
\* bytes of the UTF-8 encoding of e-acute; characters are the same strings,
\* "e'" for e-acute and "FFFD" for the replacement character.
LeadByte == "C3"
ContByte == "A9"
EAcute == "e'"
Replacement == "FFFD"

\* Buffer.prototype.toString('utf8') of one chunk: an incomplete or stray
\* byte of a multi-byte character decodes to the replacement character
RECURSIVE Utf8Decode(_)
Utf8Decode(bytes) ==
  IF bytes = <<>> THEN <<>>
  ELSE IF Head(bytes) = LeadByte
       THEN IF Len(bytes) >= 2 /\ bytes[2] = ContByte
            THEN <<EAcute>> \o Utf8Decode(SubSeq(bytes, 3, Len(bytes)))
            ELSE <<Replacement>> \o Utf8Decode(Tail(bytes))
  ELSE IF Head(bytes) = ContByte
       THEN <<Replacement>> \o Utf8Decode(Tail(bytes))
  ELSE <<Head(bytes)>> \o Utf8Decode(Tail(bytes))

\* String.prototype.split('\n')
RECURSIVE SplitLines(_)
SplitLines(str) ==
  IF \E i \in 1..Len(str) : str[i] = "\n"
  THEN LET i == CHOOSE x \in 1..Len(str) :
                  str[x] = "\n" /\ \A y \in 1..(x - 1) : str[y] /= "\n"
       IN <<SubSeq(str, 1, i - 1)>> \o SplitLines(SubSeq(str, i + 1, Len(str)))
  ELSE <<str>>

DataPrefix == <<"d","a","t","a",":"," ">>
DoneMark == <<"[","D","O","N","E","]">>

\* String.prototype.startsWith
StartsWith(str, prefix) ==
  Len(str) >= Len(prefix) /\ SubSeq(str, 1, Len(prefix)) = prefix

IsSpace(c) == c \in {" ", "\r", "\t"}

\* String.prototype.trim
RECURSIVE TrimLeft(_)
TrimLeft(str) ==
  IF str /= <<>> /\ IsSpace(Head(str)) THEN TrimLeft(Tail(str)) ELSE str

RECURSIVE TrimRight(_)
TrimRight(str) ==
  IF str /= <<>> /\ IsSpace(str[Len(str)])
  THEN TrimRight(SubSeq(str, 1, Len(str) - 1)) ELSE str

Trim(str) == TrimRight(TrimLeft(str))

(* JSON.parse(data) followed by parsed.choices[0]?.delta?.content.  The     *)
(* chunk object {"choices":[{"delta":{"content":"..."}}]} is written in the *)
(* body as {"..."}; any other text makes JSON.parse (or the access to       *)
(* choices[0]) throw.                                                       *)
ParsesAsChunk(data) ==
  /\ Len(data) >= 4
  /\ data[1] = "{" /\ data[2] = "\""
  /\ data[Len(data) - 1] = "\"" /\ data[Len(data)] = "}"
  /\ \A i \in 3..(Len(data) - 2) : data[i] \notin {"\"", "{", "}"}

ChunkContent(data) == SubSeq(data, 3, Len(data) - 2)

\* the sentinel line is passed over like a line without content
RECURSIVE ProcessLinesPastDone(_, _)
ProcessLinesPastDone(lines, out) ==
  IF lines = <<>> THEN [yielded |-> out, returned |-> FALSE]
  ELSE LET line == Head(lines)
           data == Trim(SubSeq(line, 7, Len(line)))
       IN IF StartsWith(line, DataPrefix) /\ data /= DoneMark
             /\ ParsesAsChunk(data) /\ ChunkContent(data) /= <<>>
          THEN ProcessLinesPastDone(Tail(lines), Append(out, ChunkContent(data)))
          ELSE ProcessLinesPastDone(Tail(lines), out)

\* no try/catch around JSON.parse: a malformed payload ends the generator
RECURSIVE ProcessLinesStrict(_, _)
ProcessLinesStrict(lines, out) ==
  IF lines = <<>> THEN [yielded |-> out, returned |-> FALSE]
  ELSE LET line == Head(lines)
       IN IF StartsWith(line, DataPrefix)
          THEN LET data == Trim(SubSeq(line, 7, Len(line)))
               IN IF data = DoneMark \/ ~ParsesAsChunk(data)
                  THEN [yielded |-> out, returned |-> TRUE]
                  ELSE IF ChunkContent(data) /= <<>>
                       THEN ProcessLinesStrict(Tail(lines), Append(out, ChunkContent(data)))
                       ELSE ProcessLinesStrict(Tail(lines), out)
          ELSE ProcessLinesStrict(Tail(lines), out)

\* the loop over the complete lines of one chunk: the tokens yielded and
\* whether the generator returned at [DONE]
RECURSIVE ProcessLines(_, _)
ProcessLines(lines, out) ==
  IF lines = <<>> THEN [yielded |-> out, returned |-> FALSE]
  ELSE LET line == Head(lines)
       IN IF StartsWith(line, DataPrefix)
          THEN LET data == Trim(SubSeq(line, 7, Len(line)))
               IN IF data = DoneMark
                  THEN [yielded |-> out, returned |-> TRUE]
                  ELSE IF ParsesAsChunk(data) /\ ChunkContent(data) /= <<>>
                       THEN ProcessLines(Tail(lines), Append(out, ChunkContent(data)))
                       ELSE ProcessLines(Tail(lines), out)
          ELSE ProcessLines(Tail(lines), out)

\* one iteration of "for await (const chunk of stream)"
DecodeChunk(buf, out, chunk) ==
  LET text == buf \o Utf8Decode(chunk)
      pieces == SplitLines(text)
      r == ProcessLines(SubSeq(pieces, 1, Len(pieces) - 1), out)
  IN [buffer |-> pieces[Len(pieces)], yielded |-> r.yielded, returned |-> r.returned]

\* the lines a server sends: frames with ASCII and non-ASCII content, an
\* empty content, a malformed frame, the sentinel, a blank separator line
Frame(payload) == DataPrefix \o payload
Lines == { Frame(<<"{","\"","h","\"","}">>),
           Frame(<<"{","\"",LeadByte,ContByte,"\"","}">>),
           Frame(<<"{","\"","\"","}">>),
           Frame(<<"{","\"","h">>),
           Frame(DoneMark \o <<"\r">>),
           <<>> }

RECURSIVE JoinLines(_)
JoinLines(ls) ==
  IF ls = <<>> THEN <<>> ELSE Head(ls) \o <<"\n">> \o JoinLines(Tail(ls))

\* bodies of 1..MaxLines lines, the last one with or without its newline
Bodies ==
  LET full == {JoinLines(ls) : ls \in SeqsOf(Lines, 1, MaxLines)}
  IN full \cup {SubSeq(b, 1, Len(b) - 1) : b \in full}

InitStream ==
  /\ streamBody \in Bodies
  /\ pos = 0 /\ buffer = <<>> /\ decoded = <<>> /\ yielded = <<>>
  /\ spc = "reading"
  /\ KeyIdle /\ ClientIdle /\ CacheIdle /\ BatchIdle /\ ProbeIdle /\ FileIdle
  /\ PersistIdle

\* the transport delivers the next n bytes as one chunk
Chunk(n) ==
  /\ spc = "reading"
  /\ n >= 1 /\ pos + n <= Len(streamBody)
  /\ LET r == DecodeChunk(buffer, yielded, SubSeq(streamBody, pos + 1, pos + n))
     IN /\ buffer' = r.buffer
        /\ yielded' = r.yielded
        /\ spc' = IF r.returned THEN "returned" ELSE "reading"
  /\ decoded' = decoded \o Utf8Decode(SubSeq(streamBody, pos + 1, pos + n))
  /\ pos' = pos + n
  /\ UNCHANGED <<streamBody, nonStreamVars>>

\* the transport ends: the for-await loop finishes
EndOfStream ==
  /\ spc = "reading"
  /\ pos = Len(streamBody)
  /\ spc' = "ended"
  /\ UNCHANGED <<streamBody, pos, buffer, decoded, yielded, nonStreamVars>>

NextStream ==
  \/ \E n \in 1..Len(streamBody) : Chunk(n)
  \/ EndOfStream

SpecStream == InitStream /\ [][NextStream]_vars

----------------------------------------------------------------------------
(* SpecBatch: LLMClient.batchChatCompletion over the same response cache *)

MaxBatch == 3         \* requests of a batch
MaxConcurrency == 2   \* largest concurrency argument

\* the requests of a batch carry messages and the default options
BatchArgs == { [messages |-> BaseMsgs,  temperature |-> 7, maxTokens |-> 4000],
               [messages |-> OtherMsgs, temperature |-> 7, maxTokens |-> 4000] }

\* the server's completion for a request: one body per message list
CompletionFor(messages) ==
  CHOOSE b \in CompletionBodies : b.id = (IF messages = BaseMsgs THEN "A" ELSE "B")

BatchBodiesFor(j, status) ==
  IF Is2xx(status) THEN {CompletionFor(requests[j].messages)}
  ELSE BodiesFor(status)

Unstarted ==
  [state |-> "unstarted", lookup |-> "none", status |-> NoStatus,
   value |-> NoBody, error |-> NoError]

\* requests.slice(i, i + concurrency), as indices 1..Len(requests)
Window(i) == {j \in 1..Len(requests) : i < j /\ j <= i + concurrency}

\* Promise.all over the window: it rejects as soon as one promise rejects
\* and resolves once all have resolved
WindowRejected(i) == \E j \in Window(i) : promises[j].state = "rejected"
WindowAnyResolved(i) == \E j \in Window(i) : promises[j].state = "resolved"
WindowResolved(i) == \A j \in Window(i) : promises[j].state = "resolved"

\* the continuation of "await Promise.all" runs before any further I/O event
SettlePending ==
  batchPc = "await" /\ (WindowRejected(loopIndex) \/ WindowResolved(loopIndex))

\* chatCompletion(req.messages, req.options) up to its await, for request j;
\* s carries the response cache, the stats, the POST count and the promises
StartCall(s, j) ==
  LET request == MakeRequest(requests[j], FALSE)
      cacheKey == generateCacheKey(request)
      lookup == CacheLookup(s.rc, cacheKey, clock)
  IN IF lookup = "hit"
     THEN [s EXCEPT !.st.cacheHits = @ + 1,
                    !.pr[j] = [Unstarted EXCEPT !.state = "resolved",
                                                !.lookup = lookup,
                                                !.value = getCachedResponse(s.rc, cacheKey, clock)]]
     ELSE [s EXCEPT !.rc = IF lookup = "expired" THEN MapDelete(@, cacheKey) ELSE @,
                    !.st.requestCount = @ + 1,
                    !.posts = @ + 1,
                    !.pr[j] = [Unstarted EXCEPT !.state = "inflight", !.lookup = lookup]]

\* batch.map(req => this.chatCompletion(...)) for requests j..last
RECURSIVE StartCalls(_, _, _)
StartCalls(s, j, last) ==
  IF j > last THEN s ELSE StartCalls(StartCall(s, j), j + 1, last)

\* the loop head and, when a window is left, the synchronous map over it
StartWindow ==
  /\ batchPc = "start"
  /\ IF loopIndex < Len(requests)
     THEN LET s == StartCalls([rc |-> responseCache, st |-> stats,
                               posts |-> posts, pr |-> promises],
                              loopIndex + 1,
                              Min(loopIndex + concurrency, Len(requests)))
          IN /\ responseCache' = s.rc
             /\ stats' = s.st
             /\ posts' = s.posts
             /\ promises' = s.pr
             /\ batchPc' = "await"
     ELSE /\ batchPc' = "done"
          /\ UNCHANGED <<responseCache, stats, posts, promises>>
  /\ UNCHANGED <<requests, concurrency, loopIndex, results, batchError,
                 calls, clock, nonBatchVars>>

\* the continuation of "await Promise.all(batchPromises)"
Settle ==
  /\ SettlePending
  /\ IF WindowRejected(loopIndex)
     THEN /\ batchPc' = "failed"
          /\ batchError' = promises[CHOOSE j \in Window(loopIndex) :
                                      promises[j].state = "rejected"].error
          /\ UNCHANGED <<results, loopIndex>>
     ELSE /\ results' = results \o
               [k \in 1..Cardinality(Window(loopIndex)) |-> promises[loopIndex + k].value]
          /\ loopIndex' = loopIndex + concurrency
          /\ batchPc' = "start"
          /\ UNCHANGED batchError
  /\ UNCHANGED <<requests, concurrency, promises, clientVars, nonBatchVars>>

\* the server answers the POST of request j: response interceptor, then the
\* rest of that chatCompletion call
BatchRespond(j, status, body) ==
  /\ batchPc \in {"await", "failed"}
  /\ ~SettlePending
  /\ j \in 1..Len(promises)
  /\ promises[j].state = "inflight"
  /\ body \in BatchBodiesFor(j, status)
  /\ LET request == MakeRequest(requests[j], FALSE)
     IN IF validateStatus(status)
        THEN /\ stats' = updateStats(stats, 0, body.tokens)
             /\ responseCache' =
                  IF Truthy(body)
                  THEN cacheResponse(responseCache, generateCacheKey(request),
                                     body, clock, request, status)
                  ELSE responseCache
             /\ promises' = [promises EXCEPT ![j] =
                  [@ EXCEPT !.state = "resolved", !.status = status, !.value = body]]
        ELSE /\ stats' = [stats EXCEPT !.errorCount = @ + 1]
             /\ responseCache' = responseCache
             /\ promises' = [promises EXCEPT ![j] =
                  [@ EXCEPT !.state = "rejected", !.status = status,
                            !.error = enhanceError(status)]]
  /\ UNCHANGED <<requests, concurrency, loopIndex, results, batchError, batchPc,
                 calls, posts, clock, nonBatchVars>>

\* the POST of request j fails without a response
BatchNetworkFail(j) ==
  /\ batchPc \in {"await", "failed"}
  /\ ~SettlePending
  /\ j \in 1..Len(promises)
  /\ promises[j].state = "inflight"
  /\ stats' = [stats EXCEPT !.errorCount = @ + 1]
  /\ promises' = [promises EXCEPT ![j] =
       [@ EXCEPT !.state = "rejected", !.error = enhanceError(NoStatus)]]
  /\ UNCHANGED <<requests, concurrency, loopIndex, results, batchError, batchPc,
                 responseCache, calls, posts, clock, nonBatchVars>>

InitBatch ==
  /\ requests \in SeqsOf(BatchArgs, 0, MaxBatch)
  /\ concurrency \in 1..MaxConcurrency
  /\ loopIndex = 0
  /\ promises = [j \in 1..Len(requests) |-> Unstarted]
  /\ results = <<>>
  /\ batchError = NoError
  /\ batchPc = "start"
  /\ KeyIdle /\ ClientIdle /\ CacheIdle /\ StreamIdle /\ ProbeIdle /\ FileIdle
  /\ PersistIdle

NextBatch ==
  \/ StartWindow
  \/ Settle
  \/ \E j \in 1..MaxBatch, status \in Statuses,
        body \in CompletionBodies \cup {ErrorBody, EmptyBody} :
       BatchRespond(j, status, body)
  \/ \E j \in 1..MaxBatch : BatchNetworkFail(j)

SpecBatch == InitBatch /\ [][NextBatch]_vars

\* batchChatCompletion called with any concurrency from 0 up
InitBatchAny ==
  /\ requests \in SeqsOf(BatchArgs, 0, MaxBatch)
  /\ concurrency \in 0..MaxConcurrency
  /\ loopIndex = 0
  /\ promises = [j \in 1..Len(requests) |-> Unstarted]
  /\ results = <<>>
  /\ batchError = NoError
  /\ batchPc = "start"
  /\ KeyIdle /\ ClientIdle /\ CacheIdle /\ StreamIdle /\ ProbeIdle /\ FileIdle
  /\ PersistIdle

\* The event loop runs every continuation that is ready, and every POST
\* that was issued is eventually answered or fails.  The loop head is
\* StartWindow, the only step that takes batchPc from "start" to "await" or
\* "done", and it is enabled exactly when batchPc = "start".
SpecBatchFair ==
  /\ InitBatchAny
  /\ [][NextBatch]_vars
  /\ WF_batchPc(batchPc = "start" /\ batchPc' \in {"await", "done"})
  /\ WF_vars(Settle)
  /\ \A j \in 1..MaxBatch :
       WF_vars(\/ BatchNetworkFail(j)
               \/ \E status \in Statuses, body \in CompletionBodies \cup {ErrorBody, EmptyBody} :
                    BatchRespond(j, status, body))

----------------------------------------------------------------------------
(* SpecProbe: LLMClient.testConnection, the GET going through the interceptors *)

MaxProbes == 2        \* testConnection calls per behaviour
MaxTimeout == 2       \* largest timeoutMs argument, in clock ticks

\* Error messages are sequences of text pieces; String.prototype.includes of
\* an error code is the presence of that piece.
includes(message, piece) == \E i \in 1..Len(message) : message[i] = piece

NetworkCauses == {"refused", "notfound", "etimedout", "reset"}

\* error.message of the errors the transport raises, and of the
\* CanceledError that source.cancel('Connection timed out') raises
TransportMessage(cause) ==
  CASE cause = "refused" -> <<"connect ", "ECONNREFUSED", " 127.0.0.1:11434">>
    [] cause = "notfound" -> <<"getaddrinfo ", "ENOTFOUND", " host">>
    [] cause = "etimedout" -> <<"connect ", "ETIMEDOUT", " 10.0.0.1:11434">>
    [] cause = "reset" -> <<"socket hang up">>
    [] cause = "timer" -> <<"Connection timed out">>

\* error.message of the AxiosError for a status that validateStatus refuses
StatusMessage(status) == <<"Request failed with status code ">> \o NatStr(status)

\* response.data.error.message of an error body, <<>> when the body has none
ServerMessages == { <<>>, <<"model runner has stopped">> }

ProbeStatuses == {200, 404, 500, 503}

\* response.statusText
statusText(status) ==
  CASE status = 200 -> "OK"
    [] status = 404 -> "Not Found"
    [] status = 500 -> "Internal Server Error"
    [] status = 503 -> "Service Unavailable"

\* enhanceError keeps nothing of the original message
enhancedMessageOpaque(status, serverMessage, errorMessage) ==
  <<"LLM API error">>

\* the message of the Error that enhanceError returns for an axios error
enhancedMessage(status, serverMessage, errorMessage) ==
  LET message == IF serverMessage /= <<>> THEN serverMessage ELSE errorMessage
  IN CASE status = 404 ->
            <<"Model '">> \o ClientModel \o
            <<"' not found. Please check if the model is installed.">>
       [] status = 503 ->
            <<"LLM service is temporarily unavailable. Please try again later.">>
       [] status = 413 ->
            <<"Request too large. Try reducing the message length or max_tokens.">>
       [] status = 429 ->
            <<"Rate limit exceeded. Please wait a moment before trying again.">>
       [] OTHER ->
            <<"LLM API error (">>
              \o (IF status = NoStatus THEN <<"unknown">> ELSE NatStr(status))
              \o <<"): ">> \o message

\* the catch block of testConnection; isCancel is axios.isCancel(error)
probeFailure(isCancel, message) ==
  IF isCancel
  THEN [success |-> FALSE, error |-> <<"Connection timed out">>, timeout |-> TRUE]
  ELSE IF includes(message, "ECONNREFUSED")
  THEN [success |-> FALSE, error |-> <<"Connection refused - Ollama server not running">>,
        timeout |-> FALSE]
  ELSE IF includes(message, "ENOTFOUND")
  THEN [success |-> FALSE, error |-> <<"Host not found - Check endpoint URL">>,
        timeout |-> FALSE]
  ELSE IF includes(message, "ETIMEDOUT")
  THEN [success |-> FALSE, error |-> <<"Connection timed out">>, timeout |-> TRUE]
  ELSE [success |-> FALSE, error |-> message, timeout |-> FALSE]

\* testConnection(timeoutMs) up to its await: the timer is armed, the GET sent
StartProbe(timeoutMs) ==
  /\ probe.state = "none"
  /\ Len(probes) < MaxProbes
  /\ probe' = [state |-> "pending", timeoutMs |-> timeoutMs, elapsed |-> 0]
  /\ UNCHANGED <<probes, clientVars, nonProbeVars>>

\* time passes while the GET is pending
ProbeTick ==
  /\ probe.state = "pending"
  /\ probe.elapsed < probe.timeoutMs
  /\ probe' = [probe EXCEPT !.elapsed = @ + 1]
  /\ UNCHANGED <<probes, clientVars, nonProbeVars>>

\* the server answers the GET: response interceptor, then testConnection
ProbeRespond(status, serverMessage) ==
  /\ probe.state = "pending"
  /\ IF validateStatus(status)
     THEN /\ stats' = updateStats(stats, probe.elapsed, 0)
          /\ probes' = Append(probes,
               [cause |-> "response", status |-> status,
                result |-> IF status = 200
                           THEN [success |-> TRUE, error |-> <<>>, timeout |-> FALSE]
                           ELSE [success |-> FALSE,
                                 error |-> <<"HTTP ">> \o NatStr(status)
                                             \o <<": ", statusText(status)>>,
                                 timeout |-> FALSE]])
     ELSE /\ stats' = [stats EXCEPT !.errorCount = @ + 1]
          /\ probes' = Append(probes,
               [cause |-> "response", status |-> status,
                result |-> probeFailure(FALSE,
                             enhancedMessage(status, serverMessage,
                                             StatusMessage(status)))])
  /\ probe' = NoProbe
  /\ UNCHANGED <<responseCache, calls, posts, clock, nonProbeVars>>

\* the GET fails without a response: error interceptor, then the catch block
ProbeNetworkFail(cause) ==
  /\ probe.state = "pending"
  /\ stats' = [stats EXCEPT !.errorCount = @ + 1]
  /\ probes' = Append(probes,
       [cause |-> cause, status |-> NoStatus,
        result |-> probeFailure(FALSE,
                     enhancedMessage(NoStatus, <<>>, TransportMessage(cause)))])
  /\ probe' = NoProbe
  /\ UNCHANGED <<responseCache, calls, posts, clock, nonProbeVars>>

\* the timer fires: source.cancel rejects the GET with a CanceledError, an
\* AxiosError without a response; the error interceptor replaces it by the
\* Error of enhanceError, which axios.isCancel does not recognise
TimerFires ==
  /\ probe.state = "pending"
  /\ probe.elapsed >= probe.timeoutMs
  /\ stats' = [stats EXCEPT !.errorCount = @ + 1]
  /\ probes' = Append(probes,
       [cause |-> "timer", status |-> NoStatus,
        result |-> probeFailure(FALSE,
                     enhancedMessage(NoStatus, <<>>, TransportMessage("timer")))])
  /\ probe' = NoProbe
  /\ UNCHANGED <<responseCache, calls, posts, clock, nonProbeVars>>

InitProbe ==
  ProbeIdle /\ KeyIdle /\ ClientIdle /\ CacheIdle /\ StreamIdle /\ BatchIdle /\ FileIdle
  /\ PersistIdle

NextProbe ==
  \/ \E t \in 1..MaxTimeout : StartProbe(t)
  \/ ProbeTick
  \/ \E status \in ProbeStatuses, m \in ServerMessages : ProbeRespond(status, m)
  \/ \E cause \in NetworkCauses : ProbeNetworkFail(cause)
  \/ TimerFires

SpecProbe == InitProbe /\ [][NextProbe]_vars

----------------------------------------------------------------------------
(* SpecFile: CacheManager.cacheFileContent and getCachedFileContent for one *)
(* file that changes on disk                                               *)

MaxMtime == 2         \* modification times a file takes
MaxFileSize == 2      \* sizes a file takes
MaxFileReads == 2     \* getCachedFileContent calls per behaviour

fileContentTTL == 300000

FilePath == <<"a", ".", "t", "s">>
FileContents == { <<"x">>, <<"y", "y">> }

FileStates ==
  {NoFile} \cup
  {[exists |-> TRUE, mtime |-> m, size |-> z] : m \in 1..MaxMtime, z \in 1..MaxFileSize}

\* generateKey(...parts): the MD5 digest of the parts joined by '|'
generateKey(kind, path) == <<"md5", kind, "|">> \o path

\* estimateSize of {content, mtime, size}: the length of its JSON text
estimateRecordSize(rec) ==
  Len(JsonString(rec.content)) + Len(NatStr(rec.mtime)) + Len(NatStr(rec.size)) + 29

\* only the modification time is compared
statMatchesMtimeOnly(stat, rec) == stat.mtime = rec.mtime

\* the negation of the invalidation test of getCachedFileContent
statMatches(stat, rec) == ~(stat.mtime /= rec.mtime \/ stat.size /= rec.size)

\* cacheFileContent(filePath, content): fs.stat, then set with a 5 minute TTL;
\* the stat of a missing file rejects and nothing is stored
CacheFileContent(content) ==
  /\ file.exists
  /\ LET key == generateKey("file-content", FilePath)
         data == [content |-> content, mtime |-> file.mtime, size |-> file.size]
         size == estimateRecordSize(data)
         entry == [key |-> key, data |-> data, timestamp |-> now,
                   ttl |-> fileContentTTL, size |-> size]
     IN cache' = MapSet(ensureSpace(cache, size).cache, entry)
  /\ UNCHANGED <<cstats, now, lastOp, file, fileRead, nonFileVars>>

\* getCachedFileContent(filePath) up to its await: this.get(key)
ReadBegin ==
  /\ fileRead.state /= "pending"
  /\ cstats.hits + cstats.misses < MaxFileReads
  /\ LET key == generateKey("file-content", FilePath)
         i == MapIndex(cache, key)
     IN IF i = 0
        THEN /\ cstats' = [cstats EXCEPT !.misses = @ + 1]
             /\ cache' = cache
             /\ fileRead' = [NoRead EXCEPT !.state = "done"]
        ELSE IF isExpired(cache[i], now)
        THEN /\ cache' = MapDelete(cache, key)
             /\ cstats' = [cstats EXCEPT !.misses = @ + 1]
             /\ fileRead' = [NoRead EXCEPT !.state = "done"]
        ELSE /\ cache' = cache
             /\ cstats' = [cstats EXCEPT !.hits = @ + 1]
             /\ fileRead' = [NoRead EXCEPT !.state = "pending", !.cached = cache[i].data]
  /\ UNCHANGED <<now, lastOp, file, nonFileVars>>

\* fs.stat settles and getCachedFileContent finishes
ReadStat ==
  /\ fileRead.state = "pending"
  /\ LET key == generateKey("file-content", FilePath)
     IN IF file.exists /\ statMatches(file, fileRead.cached)
        THEN /\ cache' = cache
             /\ fileRead' = [fileRead EXCEPT !.state = "done", !.seen = file,
                                             !.result = SomeData(fileRead.cached.content)]
        ELSE /\ cache' = MapDelete(cache, key)
             /\ fileRead' = [fileRead EXCEPT !.state = "done", !.seen = file]
  /\ UNCHANGED <<cstats, now, lastOp, file, nonFileVars>>

\* another program writes, truncates, touches, removes or creates the file
FileChange(f) ==
  /\ f /= file
  /\ file' = f
  /\ UNCHANGED <<cacheVars, fileRead, nonFileVars>>

\* Date.now() advances to the end of the records' TTL or just past it
FileTick(d) ==
  /\ now = 0
  /\ now' = d
  /\ UNCHANGED <<cache, cstats, lastOp, file, fileRead, nonFileVars>>

InitFile ==
  /\ file \in FileStates
  /\ fileRead = NoRead
  /\ fileText = <<>> /\ fileTasks = [t \in 1..2 |-> NoTask]
  /\ CacheIdle /\ KeyIdle /\ ClientIdle /\ StreamIdle /\ BatchIdle /\ ProbeIdle
  /\ PersistIdle

NextFile ==
  \/ \E content \in FileContents : CacheFileContent(content)
  \/ ReadBegin
  \/ ReadStat
  \/ \E f \in FileStates : FileChange(f)
  \/ \E d \in {fileContentTTL, fileContentTTL + 1} : FileTick(d)

SpecFile == InitFile /\ [][NextFile]_vars

----------------------------------------------------------------------------
(* SpecPersist: a CacheManager built with enablePersistent, whose snapshot  *)
(* load runs while the store is already in use, and savePersistentCache    *)

\* cache.json as an earlier process left it: nothing, one entry with a short
\* ttl, or an entry with the default ttl followed by one with a short ttl
Snapshots ==
  LET entry(k, ttl) == [key |-> k, data |-> StringOf(2), timestamp |-> 0,
                        ttl |-> ttl, size |-> estimateSize(StringOf(2))]
  IN { <<>>, <<entry("k1", 1)>>, <<entry("k1", defaultTTL), entry("k2", 1)>> }

\* the loop of loadPersistentCache over Object.entries(data)
RECURSIVE LoadEntries(_, _, _)
LoadEntries(m, entries, at) ==
  IF entries = <<>> THEN m
  ELSE LoadEntries(IF ~isExpired(Head(entries), at) THEN MapSet(m, Head(entries)) ELSE m,
                   Tail(entries), at)

\* fs.readJson settles and loadPersistentCache runs to its end
LoadFinish ==
  /\ loadPc = "pending"
  /\ cache' = LoadEntries(cache, disk, now)
  /\ loadPc' = "done"
  /\ UNCHANGED <<cstats, now, lastOp, disk, nonPersistVars>>

\* savePersistentCache(): Object.fromEntries(this.cache) written to cache.json
Save ==
  /\ loadPc \in {"pending", "done"}
  /\ disk' = cache
  /\ UNCHANGED <<cacheVars, loadPc, nonPersistVars>>

InitPersist ==
  /\ disk \in Snapshots
  /\ loadPc = "pending"
  /\ CacheIdle /\ KeyIdle /\ ClientIdle /\ StreamIdle /\ BatchIdle /\ ProbeIdle
  /\ FileIdle

NextPersist ==
  \/ \E k \in {"k1", "k2"}, ttl \in {0, 1} : Set(k, StringOf(1), ttl)
  \/ \E k \in {"k1", "k2"} : Get(k)
  \/ TickCache
  \/ LoadFinish
  \/ Save

SpecPersist == InitPersist /\ [][NextPersist]_vars

----------------------------------------------------------------------------
(* SpecFileRace: two FileManager calls and another program on one file *)

RaceContents == { <<"x">>, <<"z">>, <<"y", "y">> }

\* the file after a write of text c: a new modification time, the new size
Written(c) == [exists |-> TRUE, mtime |-> file.mtime + 1, size |-> Len(c)]

\* readFile(filePath) up to the first await of getCachedFileContent: this.get(key)
readFile(t) ==
  /\ fileTasks[t].pc = "idle"
  /\ LET i == MapIndex(cache, generateKey("file-content", FilePath))
     IN IF i = 0
        THEN /\ cstats' = [cstats EXCEPT !.misses = @ + 1]
             /\ cache' = cache
             /\ fileTasks' = [fileTasks EXCEPT ![t] = [NoTask EXCEPT !.op = "read", !.pc = "disk"]]
        ELSE IF isExpired(cache[i], now)
        THEN /\ cache' = MapDelete(cache, generateKey("file-content", FilePath))
             /\ cstats' = [cstats EXCEPT !.misses = @ + 1]
             /\ fileTasks' = [fileTasks EXCEPT ![t] = [NoTask EXCEPT !.op = "read", !.pc = "disk"]]
        ELSE /\ cache' = cache
             /\ cstats' = [cstats EXCEPT !.hits = @ + 1]
             /\ fileTasks' = [fileTasks EXCEPT ![t] =
                  [NoTask EXCEPT !.op = "read", !.pc = "stat", !.cached = cache[i].data]]
  /\ UNCHANGED <<now, lastOp, file, fileText, nonRaceVars>>

\* fs.stat of getCachedFileContent settles: the cached text is returned, or
\* the record is deleted and readFile goes on to read the disk
readFileStat(t) ==
  /\ fileTasks[t].pc = "stat"
  /\ IF file.exists /\ statMatches(file, fileTasks[t].cached)
     THEN /\ cache' = cache
          /\ fileTasks' = [fileTasks EXCEPT ![t] =
               [@ EXCEPT !.pc = "done", !.content = fileTasks[t].cached.content]]
     ELSE /\ cache' = MapDelete(cache, generateKey("file-content", FilePath))
          /\ fileTasks' = [fileTasks EXCEPT ![t] = [@ EXCEPT !.pc = "disk"]]
  /\ UNCHANGED <<cstats, now, lastOp, file, fileText, nonRaceVars>>

\* fs.readFile settles with the text on disk at that moment
readFileDisk(t) ==
  /\ fileTasks[t].pc = "disk"
  /\ fileTasks' = [fileTasks EXCEPT ![t] = [@ EXCEPT !.pc = "cache", !.content = fileText]]
  /\ UNCHANGED <<cacheVars, file, fileText, nonRaceVars>>

\* writeFile(filePath, content) up to the await of fs.writeFile
writeFile(t, c) ==
  /\ fileTasks[t].pc = "idle"
  /\ fileTasks' = [fileTasks EXCEPT ![t] = [NoTask EXCEPT !.op = "write", !.pc = "write", !.content = c]]
  /\ UNCHANGED <<cacheVars, file, fileText, nonRaceVars>>

\* fs.writeFile settles: the text is on disk
writeFileDisk(t) ==
  /\ fileTasks[t].pc = "write"
  /\ file.mtime <= MaxMtime
  /\ fileText' = fileTasks[t].content
  /\ file' = Written(fileTasks[t].content)
  /\ fileTasks' = [fileTasks EXCEPT ![t] = [@ EXCEPT !.pc = "cache"]]
  /\ UNCHANGED <<cacheVars, nonRaceVars>>

\* cacheFileContent(filePath, content) of readFile and writeFile: fs.stat
\* settles, the record is stored and the call returns
cacheFileContentOf(t) ==
  /\ fileTasks[t].pc = "cache"
  /\ LET data == [content |-> fileTasks[t].content, mtime |-> file.mtime, size |-> file.size]
         size == estimateRecordSize(data)
         entry == [key |-> generateKey("file-content", FilePath), data |-> data, timestamp |-> now,
                   ttl |-> fileContentTTL, size |-> size]
     IN cache' = MapSet(ensureSpace(cache, size).cache, entry)
  /\ fileTasks' = [fileTasks EXCEPT ![t] = [@ EXCEPT !.pc = "done"]]
  /\ UNCHANGED <<cstats, now, lastOp, file, fileText, nonRaceVars>>

\* another program rewrites the file; its modification time changes
ExternalWrite(c) ==
  /\ file.mtime <= MaxMtime
  /\ fileText' = c
  /\ file' = Written(c)
  /\ UNCHANGED <<cacheVars, fileTasks, nonRaceVars>>

InitFileRace ==
  /\ fileText \in RaceContents
  /\ file = [exists |-> TRUE, mtime |-> 1, size |-> Len(fileText)]
  /\ fileTasks = [t \in 1..2 |-> NoTask]
  /\ fileRead = NoRead
  /\ CacheIdle /\ KeyIdle /\ ClientIdle /\ StreamIdle /\ BatchIdle /\ ProbeIdle
  /\ PersistIdle

NextFileRace ==
  \/ \E t \in 1..2 : readFile(t)
  \/ \E t \in 1..2 : readFileStat(t)
  \/ \E t \in 1..2 : readFileDisk(t)
  \/ \E t \in 1..2, c \in RaceContents : writeFile(t, c)
  \/ \E t \in 1..2 : writeFileDisk(t)
  \/ \E t \in 1..2 : cacheFileContentOf(t)
  \/ \E c \in RaceContents : ExternalWrite(c)

SpecFileRace == InitFileRace /\ [][NextFileRace]_vars

----------------------------------------------------------------------------
(* SpecStreamCall: streamChatCompletion next to cached chatCompletion calls *)

\* streamChatCompletion up to its await: the request is counted and POSTed
StreamChatCompletion(args) ==
  /\ Len(calls) < MaxCalls
  /\ stats' = [stats EXCEPT !.requestCount = @ + 1]
  /\ posts' = posts + 1
  /\ calls' = Append(calls,
       [request |-> MakeRequest(args, TRUE), useCache |-> FALSE,
        state |-> "inflight", lookup |-> "stream",
        status |-> NoStatus, value |-> NoBody, error |-> NoError,
        source |-> [model |-> <<>>], sourceStatus |-> NoStatus,
        prior |-> Cardinality({j \in 1..Len(calls) : calls[j].state /= "inflight"}),
        startedAt |-> clock, doneAt |-> clock])
  /\ UNCHANGED <<responseCache, clock, nonClientVars>>

\* the response of a streaming POST is written to the response cache
StreamRespondCaching(i, status) ==
  /\ i \in 1..Len(calls)
  /\ calls[i].lookup = "stream" /\ calls[i].state = "inflight"
  /\ stats' = updateStats(stats, clock - calls[i].startedAt, 0)
  /\ responseCache' = cacheResponse(responseCache, generateCacheKey(calls[i].request),
                                    EmptyBody, clock, calls[i].request, status)
  /\ calls' = [calls EXCEPT ![i] =
       [@ EXCEPT !.state = "resolved", !.status = status, !.doneAt = clock]]
  /\ UNCHANGED <<posts, clock, nonClientVars>>

\* the headers of the streaming POST arrive: response interceptor (a stream
\* body has no usage field), then the generator goes on to decode the body
StreamRespond(i, status) ==
  /\ i \in 1..Len(calls)
  /\ calls[i].lookup = "stream" /\ calls[i].state = "inflight"
  /\ IF validateStatus(status)
     THEN /\ stats' = updateStats(stats, clock - calls[i].startedAt, 0)
          /\ calls' = [calls EXCEPT ![i] =
               [@ EXCEPT !.state = "resolved", !.status = status, !.doneAt = clock]]
     ELSE /\ stats' = [stats EXCEPT !.errorCount = @ + 1]
          /\ calls' = [calls EXCEPT ![i] =
               [@ EXCEPT !.state = "rejected", !.status = status,
                         !.error = enhanceError(status), !.doneAt = clock]]
  /\ UNCHANGED <<responseCache, posts, clock, nonClientVars>>

NextStreamCall ==
  \/ \E args \in ClientArgs : ChatCompletion(args, FALSE, TRUE)
  \/ \E i \in 1..MaxCalls, body \in CompletionBodies :
       /\ i <= Len(calls)
       /\ calls[i].lookup /= "stream"
       /\ Respond(i, 200, body)
  \/ \E args \in ClientArgs : StreamChatCompletion(args)
  \/ \E i \in 1..MaxCalls, status \in Statuses : StreamRespond(i, status)
  \/ \E i \in 1..MaxCalls : NetworkFail(i)
  \/ \E d \in TickSteps : Tick(d)

SpecStreamCall == InitClient /\ [][NextStreamCall]_vars

----------------------------------------------------------------------------
(* Claims about generateCacheKey (SpecKey) *)

\* C2: two requests get the same cache key exactly when they agree on
\* (model, ordered message list, temperature, max_tokens).
C2_KeyEqualIffSameFields ==
  keyPc = "done" => ((keyA = keyB) <=> SameFingerprintFields(reqA, reqB))

----------------------------------------------------------------------------
(* Claims about chatCompletion (SpecClient) *)

Completed(c) == c.state /= "inflight"
FromCache(c) == c.lookup = "hit"

\* C1: a call answered from the response cache returns a response that was
\* fetched for a request with the same model, messages, temperature and
\* max_tokens; a request that differs from every cached request is therefore
\* never answered from the cache.
C1_CacheAnswersSameRequest ==
  \A i \in 1..Len(calls) :
    FromCache(calls[i]) => SameFingerprintFields(calls[i].request, calls[i].source)

\* C3: a chatCompletion POST answered with HTTP 404 fails with a
\* model-not-found error that names the configured model.
C3_NotFoundRejects ==
  \A i \in 1..Len(calls) :
    calls[i].status = 404 =>
      /\ calls[i].state = "rejected"
      /\ calls[i].error.class = "ModelNotFound"
      /\ calls[i].error.model = ClientModel

\* C4: a call whose POST got a non-2xx status or no response at all rejects;
\* it never resolves with a value.
C4_FailureRejects ==
  \A i \in 1..Len(calls) :
    (Completed(calls[i]) /\ ~FromCache(calls[i]) /\ ~Is2xx(calls[i].status))
      => calls[i].state = "rejected"

\* C5: the step that completes a call whose POST got a non-2xx status or no
\* response leaves the response cache as it was.
C5_CacheWrittenOnlyOnSuccess ==
  [][\A i \in 1..Len(calls) :
       (~Completed(calls[i]) /\ Completed(calls'[i]) /\ ~Is2xx(calls'[i].status))
         => responseCache' = responseCache]_vars

\* the first two calls of a client are the same cached non-streaming request,
\* the second one made after the first got a 2xx answer and within the TTL
RepeatedRequest ==
  /\ Len(calls) = 2
  /\ calls[1].request = calls[2].request
  /\ ~calls[1].request.stream
  /\ calls[1].useCache /\ calls[2].useCache
  /\ calls[1].state = "resolved" /\ Is2xx(calls[1].status)
  /\ calls[2].prior = 1
  /\ calls[2].startedAt - calls[1].doneAt <= cacheTTL
  /\ Completed(calls[2])

\* C9: the same non-streaming request issued twice in succession with
\* useCache, the second within the TTL of the first's success, causes exactly
\* one HTTP POST and leaves cacheHits at 1.
C9_RepeatIsOnePost ==
  RepeatedRequest => (posts = 1 /\ stats.cacheHits = 1)

\* the repeat arrives exactly when the entry's age equals the TTL
C9_Witness ==
  /\ RepeatedRequest
  /\ calls[2].startedAt - calls[1].doneAt = cacheTTL
  /\ FromCache(calls[2])
  /\ calls[2].value = calls[1].value

----------------------------------------------------------------------------
(* Claims about CacheManager (SpecCache) *)

AfterSet == lastOp.op = "set"

\* C6 as stated: after a set call the stored sizes sum to at most maxSize,
\* unless the store held no entry immediately before the call.
C6_BoundUnlessEmptyBefore ==
  AfterSet => (SumSizes(cache) <= maxSize \/ lastOp.emptyBefore)

\* C6 amended: after a set call the stored sizes sum to at most maxSize,
\* unless the entry just set is by itself larger than maxSize; it is then the
\* only entry of the store, whatever the store held before.
C6_BoundUnlessOversized ==
  AfterSet =>
    \/ SumSizes(cache) <= maxSize
    \/ /\ lastOp.size > maxSize
       /\ Len(cache) = 1
       /\ cache[1].key = lastOp.key

\* an oversized entry was set into a store that held entries
C6_Witness ==
  /\ AfterSet
  /\ ~lastOp.emptyBefore
  /\ lastOp.evicted /= <<>>
  /\ SumSizes(cache) > maxSize

AfterGetOfStored == lastOp.op = "get" /\ lastOp.found

GetReturnedAbsentAndRemoved ==
  ~lastOp.result.some /\ ~MapHas(cache, lastOp.key)

\* C7 as stated: get at a time now >= timestamp + ttl returns null and
\* removes the entry.
C7_AbsentFromBoundary ==
  (AfterGetOfStored /\ lastOp.at >= lastOp.ts + lastOp.ttl)
    => GetReturnedAbsentAndRemoved

\* C7 amended: get at a time now > timestamp + ttl returns null and removes
\* the entry (at now = timestamp + ttl the entry is still served).
C7_AbsentAfterBoundary ==
  (AfterGetOfStored /\ lastOp.at > lastOp.ts + lastOp.ttl)
    => GetReturnedAbsentAndRemoved

\* a get found an entry past its ttl
C7_Witness ==
  /\ AfterGetOfStored
  /\ lastOp.at > lastOp.ts + lastOp.ttl
  /\ GetReturnedAbsentAndRemoved

\* entry i of the store is evicted before entry j
EvictsBefore(m, i, j) ==
  \/ m[i].timestamp < m[j].timestamp
  \/ m[i].timestamp = m[j].timestamp /\ i < j

RECURSIVE SizeOfKeys(_, _)
SizeOfKeys(m, ks) ==
  IF ks = <<>> THEN 0
  ELSE m[MapIndex(m, Head(ks))].size + SizeOfKeys(m, Tail(ks))

Evicting == AfterSet /\ lastOp.evicted /= <<>>

\* C8: a set call that evicts removes entries in ascending order of
\* timestamp, ties in map insertion order: whenever an entry goes, every
\* entry still stored comes after it in that order; the eviction starts only
\* when the new entry does not fit and stops as soon as it fits.
C8_EvictionOldestFirst ==
  Evicting =>
    LET b == lastOp.before
        ev == lastOp.evicted
        Gone(n) == {ev[x] : x \in 1..n}
    IN /\ \A n \in 1..Len(ev) : \A j \in 1..Len(b) :
            b[j].key \notin Gone(n) => EvictsBefore(b, MapIndex(b, ev[n]), j)
       /\ SumSizes(b) - SizeOfKeys(b, SubSeq(ev, 1, Len(ev) - 1)) + lastOp.size > maxSize
       /\ \/ SumSizes(b) - SizeOfKeys(b, ev) + lastOp.size <= maxSize
          \/ Len(ev) = Len(b)

\* two entries were evicted and an entry as old as the last of them stayed,
\* in a store whose map order is not its age order
C8_Witness ==
  /\ Evicting
  /\ Len(lastOp.evicted) >= 2
  /\ LET b == lastOp.before
         ev == lastOp.evicted
     IN /\ \E j \in 1..Len(b) :
              /\ b[j].key \notin {ev[x] : x \in 1..Len(ev)}
              /\ b[j].timestamp = b[MapIndex(b, ev[Len(ev)])].timestamp
        /\ \E i, j \in 1..Len(b) : i < j /\ b[i].timestamp > b[j].timestamp

----------------------------------------------------------------------------
(* Claims about the stream decoder (SpecStream) *)

StreamFinished == spc \in {"returned", "ended"}

\* the tokens of the body when the transport delivers it as a single chunk
OneChunkTokens(b) == DecodeChunk(<<>>, <<>>, b).yielded

\* C10: the tokens yielded for a body do not depend on how the body is split
\* into transport chunks.
C10_TokensIndependentOfChunking ==
  StreamFinished => yielded = OneChunkTokens(streamBody)

\* the newline-terminated lines of a text
CompleteLines(text) ==
  LET pieces == SplitLines(text) IN SubSeq(pieces, 1, Len(pieces) - 1)

IsDataLine(line) == StartsWith(line, DataPrefix)
Payload(line) == Trim(SubSeq(line, 7, Len(line)))
IsDoneLine(line) == IsDataLine(line) /\ Payload(line) = DoneMark
IsMalformedLine(line) ==
  IsDataLine(line) /\ ~IsDoneLine(line) /\ ~ParsesAsChunk(Payload(line))

\* the first sentinel line among ls, 0 if there is none
DoneIndex(ls) ==
  IF \E i \in 1..Len(ls) : IsDoneLine(ls[i])
  THEN CHOOSE i \in 1..Len(ls) :
         IsDoneLine(ls[i]) /\ \A j \in 1..(i - 1) : ~IsDoneLine(ls[j])
  ELSE 0

\* the content tokens carried by a sequence of lines, in order
RECURSIVE LineTokens(_)
LineTokens(ls) ==
  IF ls = <<>> THEN <<>>
  ELSE (IF IsDataLine(Head(ls)) /\ ParsesAsChunk(Payload(Head(ls)))
           /\ ChunkContent(Payload(Head(ls))) /= <<>>
        THEN <<ChunkContent(Payload(Head(ls)))>>
        ELSE <<>>) \o LineTokens(Tail(ls))

\* C11: once a complete line "data: [DONE]" has been decoded the generator
\* has returned, and what it has yielded is exactly the tokens of the lines
\* before that line: no sentinel value, and no token of any line after it.
C11_DoneEndsTheStream ==
  LET ls == CompleteLines(decoded)
      d == DoneIndex(ls)
  IN /\ d > 0 => spc = "returned"
     /\ spc = "returned" =>
          (d > 0 /\ yielded = LineTokens(SubSeq(ls, 1, d - 1)))

\* the generator returned at a sentinel that has a token line before it and a
\* token line after it in the same chunk
C11_Witness ==
  LET ls == CompleteLines(decoded)
      d == DoneIndex(ls)
  IN /\ spc = "returned"
     /\ yielded /= <<>>
     /\ LineTokens(SubSeq(ls, d + 1, Len(ls))) /= <<>>

\* the lines in front of the sentinel, or all complete lines without one
LinesInEffect(ls) ==
  IF DoneIndex(ls) > 0 THEN SubSeq(ls, 1, DoneIndex(ls) - 1) ELSE ls

\* C12: a "data: " line whose payload does not parse yields no token and
\* does not stop the generator: what has been yielded is the tokens of the
\* lines before it followed by the tokens of the lines decoded after it, up
\* to the sentinel.
C12_MalformedLineSkipped ==
  LET ls == LinesInEffect(CompleteLines(decoded))
  IN \A i \in 1..Len(ls) :
       IsMalformedLine(ls[i]) =>
         yielded = LineTokens(SubSeq(ls, 1, i - 1))
                     \o LineTokens(SubSeq(ls, i + 1, Len(ls)))

\* a malformed line between two token lines has been decoded
C12_Witness ==
  LET ls == LinesInEffect(CompleteLines(decoded))
  IN \E i \in 1..Len(ls) :
       /\ IsMalformedLine(ls[i])
       /\ LineTokens(SubSeq(ls, 1, i - 1)) /= <<>>
       /\ LineTokens(SubSeq(ls, i + 1, Len(ls))) /= <<>>
       /\ Len(yielded) = 2

----------------------------------------------------------------------------
(* Claims about batchChatCompletion (SpecBatch) *)

Started(j) == promises[j].state /= "unstarted"
InFlight == {j \in 1..Len(promises) : promises[j].state = "inflight"}
WindowNo(j) == (j - 1) \div concurrency

\* request j was answered from the cache or by a 2xx response
RequestSucceeded(j) ==
  /\ promises[j].state = "resolved"
  /\ promises[j].lookup = "hit" \/ Is2xx(promises[j].status)

\* the POST of request j got a non-2xx status or no response at all
RequestFailed(j) ==
  /\ promises[j].state \in {"resolved", "rejected"}
  /\ promises[j].lookup /= "hit"
  /\ ~Is2xx(promises[j].status)

\* C13: when every request of the batch succeeds, the batch returns one
\* result per request and result i is the server's response to request i,
\* for every concurrency >= 1 and every completion order.
C13_ResultsMatchRequests ==
  (batchPc = "done" /\ \A j \in 1..Len(requests) : RequestSucceeded(j)) =>
    /\ Len(results) = Len(requests)
    /\ \A i \in 1..Len(requests) : results[i] = CompletionFor(requests[i].messages)

\* C14: when the batch awaits a window every request of that window has been
\* started; a request is started only when every request of the windows
\* before its own has resolved; at most concurrency requests are in flight.
C14_WindowsInOrder ==
  /\ batchPc = "await" => \A j \in Window(loopIndex) : Started(j)
  /\ \A a, b \in 1..Len(requests) :
       (WindowNo(a) < WindowNo(b) /\ Started(b)) => promises[a].state = "resolved"
  /\ Cardinality(InFlight) <= concurrency

\* the second window of a batch of three with concurrency 2 is in flight
\* after both requests of the first window went to the network and resolved
C14_Witness ==
  /\ batchPc = "await"
  /\ concurrency = 2 /\ Len(requests) = 3
  /\ promises[1].lookup /= "hit" /\ promises[2].lookup /= "hit"
  /\ promises[3].state = "inflight"

\* C15: a batch in which the POST of some request failed ends failed, with
\* the error of a failed request, in whichever window the request is; it
\* does not return a result list.
C15_FailureFailsBatch ==
  (batchPc \in {"done", "failed"} /\ \E j \in 1..Len(requests) : RequestFailed(j)) =>
    /\ batchPc = "failed"
    /\ \E j \in 1..Len(requests) :
         RequestFailed(j) /\ batchError = promises[j].error

----------------------------------------------------------------------------
(* Claims about testConnection (SpecProbe) *)

\* C16: a probe that got no response before its timer fired resolves with
\* success = false and the timed-out flag set.
C16_TimeoutIsFlagged ==
  \A i \in 1..Len(probes) :
    probes[i].cause = "timer" =>
      (~probes[i].result.success /\ probes[i].result.timeout)

\* the three kinds of failure of a probe
FailureKind(p) ==
  CASE p.cause = "refused" -> "refused"
    [] p.cause = "notfound" -> "notfound"
    [] OTHER -> "other"

----------------------------------------------------------------------------
(* Claims about the client statistics (SpecClient) *)

\* this step completes call i, whose POST had reached the network
Completes(i) ==
  /\ i \in 1..Len(calls)
  /\ calls[i].state = "inflight"
  /\ calls'[i].state /= "inflight"

\* C18: the step that completes a request that reached the network adds the
\* response's usage.total_tokens (none on a failure) to totalTokens, moves
\* avgResponseTime by one moving-average step with the request's duration,
\* and increments errorCount exactly on the failure path; requestCount has
\* counted the request once.
C18_StatsOnEveryCompletion ==
  [][\A i \in 1..MaxCalls :
       Completes(i) =>
         LET duration == clock - calls[i].startedAt
             tokens == calls'[i].value.tokens
             failed == calls'[i].state = "rejected"
         IN /\ stats'.requestCount = posts'
            /\ stats'.totalTokens = stats.totalTokens + tokens
            /\ stats'.avgResponseTime =
                 updateStats(stats, duration, tokens).avgResponseTime
            /\ stats'.errorCount = stats.errorCount + (IF failed THEN 1 ELSE 0)]_vars

\* C19: the first request to complete sets avgResponseTime to its duration,
\* and every later request to complete, of duration d, sets it to
\* 0.1 * d + 0.9 * previous.
C19_MovingAverage ==
  [][\A i \in 1..MaxCalls :
       Completes(i) =>
         LET duration == clock - calls[i].startedAt
             first == \A j \in 1..Len(calls) :
                        FromCache(calls[j]) \/ ~Completed(calls[j])
         IN stats'.avgResponseTime =
              IF first THEN duration * AvgScale
              ELSE duration * (AvgScale \div 10)
                     + (stats.avgResponseTime - stats.avgResponseTime \div 10)]_vars

----------------------------------------------------------------------------
(* Claims about getCachedFileContent (SpecFile) *)

\* this step finishes a getCachedFileContent call that found a record
ReadFinishes == fileRead.state = "pending" /\ fileRead'.state = "done"

\* C20: a getCachedFileContent call that found a record returns the record's
\* content if the file exists and its mtime and size both equal the record's;
\* otherwise (mtime differs, size differs, or the file is gone) it returns a
\* miss and the store holds no record for the file afterwards.  A call that
\* found no record returns a miss.
C20_HitOnlyIfFileUnchanged ==
  [][/\ ReadFinishes =>
          IF /\ file.exists
             /\ file.mtime = fileRead.cached.mtime
             /\ file.size = fileRead.cached.size
          THEN fileRead'.result = SomeData(fileRead.cached.content)
          ELSE /\ fileRead'.result = NoData
               /\ ~MapHas(cache', generateKey("file-content", FilePath))
     /\ (fileRead.state /= "pending" /\ fileRead' /= fileRead
           /\ fileRead'.state = "done")
          => fileRead'.result = NoData]_vars

\* a read missed because only the size of the file had changed
C20_Witness ==
  /\ fileRead.state = "done"
  /\ fileRead.cached /= NoRecord
  /\ fileRead.seen.exists
  /\ fileRead.seen.mtime = fileRead.cached.mtime
  /\ fileRead.seen.size /= fileRead.cached.size
  /\ fileRead.result = NoData

----------------------------------------------------------------------------
(* Claims about the CacheManager counters and delete (SpecCache) *)

DeleteStep == lastOp'.op = "delete" /\ now' = now

\* the entries of m under keys other than k, in order
Without(m, k) == SelectSeq(m, LAMBDA e : e.key /= k)

\* C24: delete(key) returns true exactly when the key was present; on an
\* absent key it changes neither the entries nor the counters; after it the
\* key is absent and every other entry is as before, so that a second
\* delete(key) in a row returns false and changes nothing.
C24_DeleteIdempotent ==
  [][DeleteStep =>
       /\ lastOp'.found = MapHas(cache, lastOp'.key)
       /\ ~MapHas(cache, lastOp'.key) => cache' = cache
       /\ cache' = Without(cache, lastOp'.key)
       /\ ~MapHas(cache', lastOp'.key)
       /\ cstats' = cstats]_vars

\* delete of an absent key on a store that holds entries and has counted a get
C24_Witness ==
  /\ lastOp.op = "delete"
  /\ ~lastOp.found
  /\ cache /= <<>>
  /\ cstats.hits + cstats.misses > 0

----------------------------------------------------------------------------
(* Claims about the persistent snapshot (SpecPersist) *)

\* the entries of m that are not expired at time at, in order
Live(m, at) == SelectSeq(m, LAMBDA e : ~isExpired(e, at))

\* this step finishes the snapshot load
LoadStep == loadPc = "pending" /\ loadPc' = "done"

\* C22: a step that rewrites the snapshot writes exactly the entries of the
\* store that are not expired at that time, and the step that finishes the
\* load adds or replaces no entry that is expired at that time.
C22_NoExpiredCrossesPersistence ==
  [][/\ disk' /= disk => disk' = Live(cache, now)
     /\ LoadStep =>
          \A i \in 1..Len(cache') :
            (~MapHas(cache, cache'[i].key)
               \/ cache[MapIndex(cache, cache'[i].key)] /= cache'[i])
              => ~isExpired(cache'[i], now)]_vars

\* C27: the step that finishes the snapshot load leaves every entry that a
\* set call stored since construction with the value given to set.
C27_LoadKeepsSetEntries ==
  [][LoadStep =>
       \A i \in 1..Len(cache) :
         /\ MapHas(cache', cache[i].key)
         /\ cache'[MapIndex(cache', cache[i].key)].data = cache[i].data]_vars

----------------------------------------------------------------------------
(* Claims about streamChatCompletion and the response cache (SpecStreamCall) *)

IsStreamCall(c) == c.lookup = "stream"

\* this step starts a streamChatCompletion call
StreamStarts ==
  Len(calls') = Len(calls) + 1 /\ IsStreamCall(calls'[Len(calls')])

\* this step settles the POST of a streamChatCompletion call
StreamSettles ==
  \E i \in 1..Len(calls) :
    IsStreamCall(calls[i]) /\ ~Completed(calls[i]) /\ Completed(calls'[i])

\* C23: the step that starts a streamChatCompletion call issues one POST,
\* whatever the response cache holds, and neither that step nor the step
\* that settles its POST changes the response cache or cacheHits.
C23_StreamBypassesCache ==
  [][/\ StreamStarts => posts' = posts + 1
     /\ (StreamStarts \/ StreamSettles) =>
          /\ responseCache' = responseCache
          /\ stats'.cacheHits = stats.cacheHits]_vars

\* a streaming call got its response while the cache held, within its TTL,
\* the response of the same request made without streaming
C23_Witness ==
  \E i \in 1..Len(calls) :
    /\ IsStreamCall(calls[i])
    /\ calls[i].state = "resolved"
    /\ CacheLookup(responseCache, generateCacheKey(calls[i].request), clock) = "hit"
    /\ SameFingerprintFields(
         responseCache[MapIndex(responseCache, generateCacheKey(calls[i].request))].req,
         calls[i].request)
    /\ posts = 2

----------------------------------------------------------------------------
(* Claims about overlapping chatCompletion calls (SpecClient) *)

\* a call that consulted the response cache and found nothing usable
MissedCache(c) == c.lookup \in {"absent", "expired"}

\* call j started while call i, with the same fingerprint, was in flight,
\* and both missed the cache
Racing(i, j) ==
  /\ i < j
  /\ calls[j].prior = 0
  /\ MissedCache(calls[i]) /\ MissedCache(calls[j])
  /\ SameFingerprintFields(calls[i].request, calls[j].request)

\* the call's response was written to the cache
Wrote(c) == c.state = "resolved" /\ Truthy(c.value)

EntriesFor(rc, k) == {n \in 1..Len(rc) : rc[n].key = k}

\* C25: two chatCompletion calls with the same fingerprint that are in
\* flight together and both miss the cache each issue a POST and count no
\* cache hit; when the second of their responses is written, the cache
\* holds exactly one entry for their key, and it is that response.
C25_LastWriterWins ==
  [][\A i \in 1..Len(calls), j \in 1..Len(calls) :
       Racing(i, j) =>
         /\ posts = Cardinality({k \in 1..Len(calls) : ~FromCache(calls[k])})
         /\ stats.cacheHits = Cardinality({k \in 1..Len(calls) : FromCache(calls[k])})
         /\ \A a \in {i, j}, b \in {i, j} :
              (/\ a /= b
               /\ Wrote(calls[b])
               /\ ~Completed(calls[a])
               /\ Wrote(calls'[a])) =>
                LET key == generateCacheKey(calls[a].request)
                IN /\ Cardinality(EntriesFor(responseCache', key)) = 1
                   /\ responseCache'[MapIndex(responseCache', key)].response
                        = calls'[a].value
                   /\ stats'.cacheHits = stats.cacheHits]_vars

\* both racing calls completed with different responses, and the one that
\* started first was answered last: the cache holds its response
C25_Witness ==
  /\ Len(calls) = 2
  /\ Racing(1, 2)
  /\ Wrote(calls[1]) /\ Wrote(calls[2])
  /\ calls[1].value /= calls[2].value
  /\ posts = 2
  /\ responseCache[MapIndex(responseCache, generateCacheKey(calls[1].request))].response
       = calls[1].value

----------------------------------------------------------------------------
(* Claims about FileManager and the file-content records (SpecFileRace) *)

\* C26: a file-content record whose modification time and size are those of
\* the file on disk holds the text that is on disk.
C26_RecordMatchesDisk ==
  \A i \in 1..Len(cache) :
    (/\ cache[i].key = generateKey("file-content", FilePath)
     /\ file.exists
     /\ statMatches(file, cache[i].data)) =>
      cache[i].data.content = fileText

----------------------------------------------------------------------------
(* Claims about testConnection and the statistics (SpecProbe) *)

\* this step finishes a testConnection call
ProbeFinishes == Len(probes') = Len(probes) + 1

\* C28: a testConnection call, whether its probe succeeds, fails or times
\* out, leaves requestCount, totalTokens, avgResponseTime, errorCount and
\* cacheHits as they were.
C28_ProbeLeavesStats ==
  [][ProbeFinishes => stats' = stats]_vars

----------------------------------------------------------------------------
(* Claims about the termination of batchChatCompletion (SpecBatchFair) *)

BatchSettled == batchPc \in {"done", "failed"}

\* C29: batchChatCompletion eventually resolves or rejects, whatever the
\* list of requests and the concurrency, when every chatCompletion call it
\* makes settles.
C29_BatchSettles == <>BatchSettled

\* the same for the calls with a concurrency of one or more
C29_PositiveConcurrencySettles == (concurrency >= 1) => <>BatchSettled

----------------------------------------------------------------------------
(* Claims about the last line of a streamed body (SpecStream) *)

\* C30: when the generator has finished, what it has yielded is the content
\* tokens of all the "data: " lines of the decoded body in front of the
\* first sentinel line, in order, the last line counting as a line even when
\* no newline ends it.
C30_FinalLineYielded ==
  StreamFinished => yielded = LineTokens(LinesInEffect(SplitLines(decoded)))

====
